---------------------------- MODULE Spec2Model ----------------------------
(***************************************************************************)
(* The in-memory store of hicup2017 (src/main.go): three maps keyed by id  *)
(* behind one sync.RWMutex, the insert / get methods of InmemoryDB, the    *)
(* update handlers that write through the pointers the get methods hand    *)
(* out, and the queryVisits scan.                                          *)
(*                                                                         *)
(* Spec runs the handlers on concurrent goroutines; SpecQ runs queryVisits *)
(* on stores and arguments drawn from bounded sets, with no writer, and    *)
(* SpecA does the same for queryAverage.  SpecAge runs computeAge on birth *)
(* dates, and SpecRound the float64 arithmetic that ends queryAverage and  *)
(* its handler on sums and counts.  SpecLoad runs initializeData on the    *)
(* files of an archive, and SpecDefaults runs getUserVisitsHandler from    *)
(* the query string of the request on.                                     *)
(* A step of a goroutine is one access to the shared store or to the lock; *)
(* the steps interleave, and each reads and writes whole words.            *)
(***************************************************************************)
EXTENDS Integers, Sequences, FiniteSets, Bags, TLC

(***************************************************************************)
(* Bounds of the model.                                                    *)
(***************************************************************************)
NumThreads == 2
MaxId == 1
MaxOps == 2
MaxVisits == 3

Threads == 1..NumThreads
IDs == 1..MaxId
NoThread == 0
NilPtr == 0

Collections == {"users", "locations", "visits"}

(***************************************************************************)
(* Record types and the request bodies the handlers receive.               *)
(***************************************************************************)
User(k, e, f, l, g, b) ==
    [id |-> k, email |-> e, first_name |-> f, last_name |-> l, gender |-> g, birth_date |-> b]

Location(k, p, co, ci, d) ==
    [id |-> k, place |-> p, country |-> co, city |-> ci, distance |-> d]

Visit(k, l, u, at, m) ==
    [id |-> k, location |-> l, user |-> u, visited_at |-> at, mark |-> m]

VisitPlace(p, at, m) ==
    [place |-> p, visited_at |-> at, mark |-> m]

\* Field order of the update structs: the order in which a handler writes them.
UserUpdate == <<"email", "first_name", "last_name", "gender", "birth_date">>
LocationUpdate == <<"place", "country", "city", "distance">>
VisitUpdate == <<"location", "user", "visited_at", "mark">>

UpdateFields(c) ==
    CASE c = "users" -> UserUpdate
      [] c = "locations" -> LocationUpdate
      [] c = "visits" -> VisitUpdate

\* Bodies of POST /users/new, /locations/new, /visits/new with every field present.
NewUser == { User(k, "a@x", "A", "L", "m", 100) : k \in IDs }
           \cup { User(k, "b@x", "B", "L", "f", 200) : k \in IDs }

NewLocation == { Location(k, "P", "RU", "C", 10) : k \in IDs }

NewVisit == { Visit(k, 1, 1, 200, 2) : k \in IDs }

NewRecords(c) ==
    CASE c = "users" -> NewUser
      [] c = "locations" -> NewLocation
      [] c = "visits" -> NewVisit

\* Bodies of POST /<collection>/{id}: fields holds the keys with a value,
\* nulls the keys whose value is the JSON null.
Body(f, n) == [fields |-> f, nulls |-> n]

UserBodies ==
    { Body(<<>>, {}),
      Body([first_name |-> "X"], {}),
      Body([email |-> "", gender |-> "f"], {}),
      Body([first_name |-> "Y"], {"gender"}) }

LocationBodies ==
    { Body([country |-> "US", distance |-> 0], {}) }

VisitBodies ==
    { Body([location |-> 2, visited_at |-> 300], {}) }

UpdateBodies(c) ==
    CASE c = "users" -> UserBodies
      [] c = "locations" -> LocationBodies
      [] c = "visits" -> VisitBodies

VARIABLES
    users,      \* InmemoryDB.users: map[int32]*User
    locations,  \* InmemoryDB.locations
    visits,     \* InmemoryDB.visits
    mux,        \* InmemoryDB.mux: the RWMutex
    pc,         \* per goroutine: the place it has reached
    req,        \* per goroutine: the operation it serves and its arguments
    loc,        \* per goroutine: its local variables
    ret,        \* per goroutine: what the operation returned
    nops        \* operations started so far

vars == <<users, locations, visits, mux, pc, req, loc, ret, nops>>
maps == <<users, locations, visits>>

\* Mutant: one map holds the records of all three kinds.
CollShared(c) == users

\* d.users, d.locations, d.visits: one map per collection.
Coll(c) ==
    CASE c = "users" -> users
      [] c = "locations" -> locations
      [] c = "visits" -> visits

Present(c, k) == k \in DOMAIN Coll(c)

NoReq == [kind |-> "none"]
NoRet == [status |-> "none"]
NoLoc == [ptr |-> NilPtr, left |-> <<>>, old |-> <<>>, scanned |-> {}, cur |-> NilPtr,
          at |-> 0, out |-> <<>>, count |-> 0, sum |-> 0, average |-> [k |-> "zero"]]

\* The zero RWMutex of newInmemoryDB.
RWMutex == [w |-> NoThread, held |-> FALSE, r |-> [t \in Threads |-> 0]]

\* initializeData: before the server listens, the records of data.zip are
\* added one by one to the empty maps of newInmemoryDB.  The archive is empty
\* or holds one user, one location and one visit of that user to that location.
DataZip ==
    { [users |-> {}, locations |-> {}, visits |-> {}],
      [users |-> {User(1, "a@x", "A", "L", "m", 100)},
       locations |-> {Location(1, "P", "RU", "C", 10)},
       visits |-> {Visit(1, 1, 1, 200, 2)}] }

Loaded(recs) == [k \in {r.id : r \in recs} |-> CHOOSE r \in recs : r.id = k]

initializeData(z) ==
    /\ users = Loaded(z.users)
    /\ locations = Loaded(z.locations)
    /\ visits = Loaded(z.visits)
    /\ mux = RWMutex

Init ==
    /\ \E z \in DataZip : initializeData(z)
    /\ pc = [t \in Threads |-> "idle"]
    /\ req = [t \in Threads |-> NoReq]
    /\ loc = [t \in Threads |-> NoLoc]
    /\ ret = [t \in Threads |-> NoRet]
    /\ nops = 0

(***************************************************************************)
(* sync.RWMutex.  mux.w is the goroutine that has announced a Lock (it     *)
(* owns the lock once mux.held), mux.r[t] the read locks goroutine t       *)
(* holds.  A goroutine whose RLock found a writer announced sleeps at a    *)
(* label ending in _RWait until that writer's Unlock wakes it.             *)
(***************************************************************************)
RECURSIVE SumOver(_, _)
SumOver(f, S) ==
    IF S = {} THEN 0
    ELSE LET x == CHOOSE y \in S : TRUE IN f[x] + SumOver(f, S \ {x})

Readers == SumOver(mux.r, Threads)

\* Mutant: Lock does not wait for the writer that holds the lock.
LockFreeAlways == TRUE

\* Lock: the writer mutex is free; the call returns at once when no reader is in.
LockFree == mux.w = NoThread

Lock(t) == [mux EXCEPT !.w = t, !.held = (Readers = 0)]

\* The sleeping writer is woken when the last reader has left.
LockGranted(t) == mux.w = t /\ ~mux.held /\ Readers = 0

\* Mutant: a plain mutex, which lets one reader in at a time.
RLockExclusive == mux.w = NoThread /\ Readers = 0

\* Mutant: RLock does not look for a writer.
RLockFreeAlways == TRUE

\* RLock succeeds at once unless a writer holds or waits for the lock.
RLockFree == mux.w = NoThread

RLock(t) == [mux EXCEPT !.r[t] = @ + 1]

\* Mutant: the deferred RUnlock is missing.
RUnlockMissing(t) == mux

RUnlock(t) == [mux EXCEPT !.r[t] = @ - 1]

RWaitLabels == {"get_RWait", "upd_RWait", "qv_RWait", "qv_getLocation_RWait",
                "qa_RWait", "qa_getUser_RWait"}

Resume(l) ==
    CASE l = "get_RWait" -> "get_read"
      [] l = "upd_RWait" -> "upd_read"
      [] l = "qv_RWait" -> "qv_range"
      [] l = "qv_getLocation_RWait" -> "qv_getLocation_read"
      [] l = "qa_RWait" -> "qa_range"
      [] l = "qa_getUser_RWait" -> "qa_getUser_read"
      [] OTHER -> l

\* Unlock hands the lock to every reader that went to sleep behind the writer.
Unlock(t) ==
    [w |-> NoThread, held |-> FALSE,
     r |-> [u \in Threads |-> IF pc[u] \in RWaitLabels THEN mux.r[u] + 1 ELSE mux.r[u]]]

Woken(t, l) ==
    [u \in Threads |-> IF u = t THEN l
                       ELSE IF pc[u] \in RWaitLabels THEN Resume(pc[u]) ELSE pc[u]]

HoldsLock(t) == mux.w = t /\ mux.held
HoldsRLock(t) == mux.r[t] > 0

\* A goroutine takes up a request when it serves none; goroutines are numbered
\* in the order in which they take up their first request, and the model stops
\* taking requests after MaxOps of them.
Ready(t) ==
    /\ pc[t] \in {"idle", "done"}
    /\ \A u \in Threads : u < t => pc[u] # "idle"
    /\ nops < MaxOps

(***************************************************************************)
(* addUser / addLocation / addVisit.                                       *)
(***************************************************************************)
StartAdd(t) ==
    /\ Ready(t)
    /\ \E c \in Collections : \E rec \in NewRecords(c) :
          req' = [req EXCEPT ![t] = [kind |-> "add", coll |-> c, id |-> rec.id, rec |-> rec]]
    /\ pc' = [pc EXCEPT ![t] = "add_Lock"]
    /\ loc' = [loc EXCEPT ![t] = NoLoc]
    /\ ret' = [ret EXCEPT ![t] = NoRet]
    /\ nops' = nops + 1
    /\ UNCHANGED <<maps, mux>>

AddLock(t) ==
    /\ pc[t] = "add_Lock"
    /\ LockFree
    /\ mux' = Lock(t)
    /\ pc' = [pc EXCEPT ![t] = IF Readers = 0 THEN "add_check" ELSE "add_LockWait"]
    /\ UNCHANGED <<maps, req, loc, ret, nops>>

AddLockWait(t) ==
    /\ pc[t] = "add_LockWait"
    /\ LockGranted(t)
    /\ mux' = [mux EXCEPT !.held = TRUE]
    /\ pc' = [pc EXCEPT ![t] = "add_check"]
    /\ UNCHANGED <<maps, req, loc, ret, nops>>

\* d.users[id]: the pointer stored under the id, nil when there is none.  A
\* map entry is written once and never removed, so the id stands for the pointer.
Lookup(c, k) == IF Present(c, k) THEN k ELSE NilPtr

\* if _, ok := d.users[user.ID]; ok
AddCheck(t) ==
    /\ pc[t] = "add_check"
    /\ loc' = [loc EXCEPT ![t].ptr = Lookup(req[t].coll, req[t].id)]
    /\ pc' = [pc EXCEPT ![t] = "add_store"]
    /\ UNCHANGED <<maps, mux, req, ret, nops>>

\* Mutant: the insert returns nil without writing the map.
StoreDropped(m, k, rec) == m

Store(m, k, rec) == [x \in DOMAIN m \cup {k} |-> IF x = k THEN rec ELSE m[x]]

\* Mutant: the insert does not look at the result of the lookup.
AddConflictNever(t) == FALSE

\* Mutant: a visit whose user or location is not stored is refused.
AddConflictOrDangling(t) ==
    \/ loc[t].ptr # NilPtr
    \/ /\ req[t].coll = "visits"
       /\ (req[t].rec.user \notin DOMAIN users \/ req[t].rec.location \notin DOMAIN locations)

\* The ok of the map lookup: a record is stored under the id.
AddConflict(t) == loc[t].ptr # NilPtr

\* return errConflictID, or d.users[user.ID] = user; return nil.  The deferred
\* Unlock runs as the method returns.
AddStore(t) ==
    /\ pc[t] = "add_store"
    /\ IF AddConflict(t)
       THEN /\ ret' = [ret EXCEPT ![t] = [status |-> "conflict"]]
            /\ UNCHANGED maps
       ELSE /\ ret' = [ret EXCEPT ![t] = [status |-> "ok"]]
            /\ CASE req[t].coll = "users" ->
                      users' = Store(users, req[t].id, req[t].rec) /\ UNCHANGED <<locations, visits>>
                 [] req[t].coll = "locations" ->
                      locations' = Store(locations, req[t].id, req[t].rec) /\ UNCHANGED <<users, visits>>
                 [] req[t].coll = "visits" ->
                      visits' = Store(visits, req[t].id, req[t].rec) /\ UNCHANGED <<users, locations>>
    /\ mux' = Unlock(t)
    /\ pc' = Woken(t, "done")
    /\ UNCHANGED <<req, loc, nops>>

(***************************************************************************)
(* getUser / getLocation / getVisit and the GET handlers, which encode the *)
(* record behind the returned pointer after the lock is released.          *)
(***************************************************************************)
StartGet(t) ==
    /\ Ready(t)
    /\ \E c \in Collections : \E k \in IDs :
          req' = [req EXCEPT ![t] = [kind |-> "get", coll |-> c, id |-> k]]
    /\ pc' = [pc EXCEPT ![t] = "get_RLock"]
    /\ loc' = [loc EXCEPT ![t] = NoLoc]
    /\ ret' = [ret EXCEPT ![t] = NoRet]
    /\ nops' = nops + 1
    /\ UNCHANGED <<maps, mux>>

\* d.mux.RLock() of a method whose labels start with p.
DoRLock(t, p) ==
    /\ pc[t] = p \o "_RLock"
    /\ IF RLockFree
       THEN /\ mux' = RLock(t)
            /\ pc' = [pc EXCEPT ![t] = Resume(p \o "_RWait")]
       ELSE /\ mux' = mux
            /\ pc' = [pc EXCEPT ![t] = p \o "_RWait"]

GetRLock(t) ==
    /\ DoRLock(t, "get")
    /\ UNCHANGED <<maps, req, loc, ret, nops>>

\* Mutant: the lookup clears the id of the record it finds.
GetReadWriting(t) ==
    /\ pc[t] = "get_read"
    /\ loc' = [loc EXCEPT ![t].ptr = Lookup(req[t].coll, req[t].id)]
    /\ mux' = RUnlock(t)
    /\ pc' = [pc EXCEPT ![t] = "get_encode"]
    /\ IF Lookup(req[t].coll, req[t].id) = NilPtr
       THEN UNCHANGED maps
       ELSE CASE req[t].coll = "users" ->
                   users' = [users EXCEPT ![req[t].id].id = 0] /\ UNCHANGED <<locations, visits>>
              [] req[t].coll = "locations" ->
                   locations' = [locations EXCEPT ![req[t].id].id = 0] /\ UNCHANGED <<users, visits>>
              [] req[t].coll = "visits" ->
                   visits' = [visits EXCEPT ![req[t].id].id = 0] /\ UNCHANGED <<users, locations>>
    /\ UNCHANGED <<req, ret, nops>>

\* return d.users[id], and the deferred RUnlock.
GetRead(t) ==
    /\ pc[t] = "get_read"
    /\ loc' = [loc EXCEPT ![t].ptr = Lookup(req[t].coll, req[t].id)]
    /\ mux' = RUnlock(t)
    /\ pc' = [pc EXCEPT ![t] = "get_encode"]
    /\ UNCHANGED <<maps, req, ret, nops>>

\* Mutant: the handler answers "{}" where it should answer 404.
NotFoundAnswersOk == [status |-> "ok"]

\* http.NotFound(w, r)
NotFound == [status |-> "notfound"]

\* if user == nil { http.NotFound }, else json.NewEncoder(w).Encode(user).
GetEncode(t) ==
    /\ pc[t] = "get_encode"
    /\ ret' = [ret EXCEPT ![t] =
                  IF loc[t].ptr = NilPtr THEN NotFound
                  ELSE [status |-> "ok", body |-> Coll(req[t].coll)[loc[t].ptr]]]
    /\ pc' = [pc EXCEPT ![t] = "done"]
    /\ UNCHANGED <<maps, mux, req, loc, nops>>

(***************************************************************************)
(* updateUserHandler / updateLocationHandler / updateVisitHandler: the     *)
(* record is looked up with getUser / getLocation / getVisit, the lock is  *)
(* released, and the fields the body supplies are then assigned one by one *)
(* through the returned pointer.                                           *)
(***************************************************************************)
StartUpdate(t) ==
    /\ Ready(t)
    /\ \E c \in Collections : \E k \in IDs : \E b \in UpdateBodies(c) :
          req' = [req EXCEPT ![t] = [kind |-> "update", coll |-> c, id |-> k, body |-> b]]
    /\ pc' = [pc EXCEPT ![t] = "upd_RLock"]
    /\ loc' = [loc EXCEPT ![t] = NoLoc]
    /\ ret' = [ret EXCEPT ![t] = NoRet]
    /\ nops' = nops + 1
    /\ UNCHANGED <<maps, mux>>

UpdRLock(t) ==
    /\ DoRLock(t, "upd")
    /\ UNCHANGED <<maps, req, loc, ret, nops>>

\* The zero value of the type of a field.
ZeroValue(f) == IF f \in {"birth_date", "distance", "location", "user", "visited_at", "mark"} THEN 0 ELSE ""

\* Mutant: a field whose value is the zero value of its type is dropped with
\* the omitted ones.
RECURSIVE DecodeOmitEmpty(_, _)
DecodeOmitEmpty(fs, b) ==
    IF fs = <<>> THEN <<>>
    ELSE IF Head(fs) \in DOMAIN b.fields /\ b.fields[Head(fs)] # ZeroValue(Head(fs))
         THEN <<[field |-> Head(fs), value |-> b.fields[Head(fs)]]>> \o DecodeOmitEmpty(Tail(fs), b)
         ELSE DecodeOmitEmpty(Tail(fs), b)

\* The decoded update struct: its non-nil fields with the values they point
\* to, in struct order.
RECURSIVE Decode(_, _)
Decode(fs, b) ==
    IF fs = <<>> THEN <<>>
    ELSE IF Head(fs) \in DOMAIN b.fields
         THEN <<[field |-> Head(fs), value |-> b.fields[Head(fs)]]>> \o Decode(Tail(fs), b)
         ELSE Decode(Tail(fs), b)

\* Mutant: an update struct of plain values, so a field the body omits
\* decodes to the zero value and is assigned like the others.
SuppliedOrZero(c, b) ==
    [i \in 1..Len(UpdateFields(c)) |->
        [field |-> UpdateFields(c)[i],
         value |-> IF UpdateFields(c)[i] \in DOMAIN b.fields
                   THEN b.fields[UpdateFields(c)[i]] ELSE ZeroValue(UpdateFields(c)[i])]]

Supplied(c, b) == Decode(UpdateFields(c), b)

\* Mutant: the body is decoded into the update struct only, where a null
\* leaves the pointer nil like an omitted key.
HasNullNever(b) == FALSE

\* for _, v := range d { if v == nil }: a top-level value of the body is null.
HasNull(b) == b.nulls # {}

\* user := db.getUser(userID) and what the handler decides before it touches
\* the record: 404 when the lookup returned nil; 400 when a top-level value of
\* the body is null; "{}" at once when the body supplies no field.  loc.old
\* keeps the record as it was when the merge began (history only).
UpdRead(t) ==
    /\ pc[t] = "upd_read"
    /\ mux' = RUnlock(t)
    /\ LET p == Lookup(req[t].coll, req[t].id)
           s == Supplied(req[t].coll, req[t].body)
       IN IF p = NilPtr
          THEN /\ ret' = [ret EXCEPT ![t] = NotFound]
               /\ pc' = [pc EXCEPT ![t] = "done"]
               /\ loc' = loc
          ELSE IF HasNull(req[t].body)
          THEN /\ ret' = [ret EXCEPT ![t] = [status |-> "badreq"]]
               /\ pc' = [pc EXCEPT ![t] = "done"]
               /\ loc' = [loc EXCEPT ![t].ptr = p]
          ELSE IF s = <<>>
          THEN /\ ret' = [ret EXCEPT ![t] = [status |-> "ok"]]
               /\ pc' = [pc EXCEPT ![t] = "done"]
               /\ loc' = [loc EXCEPT ![t].ptr = p]
          ELSE /\ ret' = ret
               /\ pc' = [pc EXCEPT ![t] = "upd_write"]
               /\ loc' = [loc EXCEPT ![t].ptr = p, ![t].left = s,
                                     ![t].old = Coll(req[t].coll)[p]]
    /\ UNCHANGED <<maps, req, nops>>

\* Mutant: the update struct has an id field, which a body without an id
\* leaves zero and the handler copies with the rest.
AssignWithId(m, p, f, v) == [m EXCEPT ![p] = [@ EXCEPT ![f] = v, !.id = 0]]

\* if userUpdate.F != nil { user.F = *userUpdate.F }
Assign(m, p, f, v) == [m EXCEPT ![p] = [@ EXCEPT ![f] = v]]

\* The next supplied field is assigned; after the last one the handler
\* writes "{}".
UpdWrite(t) ==
    /\ pc[t] = "upd_write"
    /\ LET f == Head(loc[t].left).field
           v == Head(loc[t].left).value
           p == loc[t].ptr
       IN CASE req[t].coll = "users" ->
                 users' = Assign(users, p, f, v) /\ UNCHANGED <<locations, visits>>
            [] req[t].coll = "locations" ->
                 locations' = Assign(locations, p, f, v) /\ UNCHANGED <<users, visits>>
            [] req[t].coll = "visits" ->
                 visits' = Assign(visits, p, f, v) /\ UNCHANGED <<users, locations>>
    /\ loc' = [loc EXCEPT ![t].left = Tail(@)]
    /\ IF Len(loc[t].left) = 1
       THEN /\ ret' = [ret EXCEPT ![t] = [status |-> "ok"]]
            /\ pc' = [pc EXCEPT ![t] = "done"]
       ELSE UNCHANGED <<pc, ret>>
    /\ UNCHANGED <<mux, req, nops>>

(***************************************************************************)
(* queryVisits.                                                            *)
(***************************************************************************)
QueryArgs ==
    { [userID |-> u, fromDate |-> 100, toDate |-> 300, country |-> "", toDistance |-> 50]
        : u \in IDs }

StartQueryVisits(t) ==
    /\ Ready(t)
    /\ \E a \in QueryArgs :
          req' = [req EXCEPT ![t] = [kind |-> "queryVisits", args |-> a]]
    /\ pc' = [pc EXCEPT ![t] = "qv_RLock"]
    /\ loc' = [loc EXCEPT ![t] = NoLoc]
    /\ ret' = [ret EXCEPT ![t] = NoRet]
    /\ nops' = nops + 1
    /\ UNCHANGED <<maps, mux>>

QvRLock(t) ==
    /\ DoRLock(t, "qv")
    /\ UNCHANGED <<maps, req, loc, ret, nops>>

\* Mutant: the date bounds are inclusive.
VisitMatchesInclusive(v, a) ==
    /\ a.userID = v.user
    /\ ~(a.fromDate > v.visited_at)
    /\ ~(a.toDate < v.visited_at)

\* Lines 216-224: the visit is of the user and strictly inside the date range.
VisitMatches(v, a) ==
    /\ a.userID = v.user
    /\ ~(a.fromDate >= v.visited_at)
    /\ ~(a.toDate <= v.visited_at)

\* Lines 226-231: the country filter, when given, and the distance bound.
LocationMatches(l, a) ==
    /\ ~(a.country # "" /\ a.country # l.country)
    /\ ~(a.toDistance <= l.distance)

\* sort.Sort(visitsByTime(visits)): on a slice of fewer than seven elements
\* the library runs only its insertion sort, which swaps an element down while
\* it is Less than the one before it.
\* Mutant: the slice is ordered by mark.
LessByMark(a, i, j) == a[i].mark < a[j].mark

Less(a, i, j) == a[i].visited_at < a[j].visited_at

Swap(a, i, j) == [a EXCEPT ![i] = a[j], ![j] = a[i]]

RECURSIVE SinkDown(_, _)
SinkDown(a, j) ==
    IF j > 1 /\ Less(a, j, j - 1) THEN SinkDown(Swap(a, j, j - 1), j - 1) ELSE a

RECURSIVE SortFrom(_, _)
SortFrom(a, i) == IF i > Len(a) THEN a ELSE SortFrom(SinkDown(a, i), i + 1)

visitsByTime(a) == SortFrom(a, 2)

\* for _, v := range d.visits: the next key in the map's iteration order, which
\* the language leaves unspecified.  A visit that fails the first filters is
\* skipped in the same step; one that passes goes on to getLocation.  After the
\* last key the result is sorted and returned, and the deferred RUnlock runs.
QvRange(t) ==
    /\ pc[t] = "qv_range"
    /\ IF DOMAIN visits \subseteq loc[t].scanned
       THEN /\ ret' = [ret EXCEPT ![t] = [status |-> "ok", body |-> visitsByTime(loc[t].out)]]
            /\ mux' = RUnlock(t)
            /\ pc' = [pc EXCEPT ![t] = "done"]
            /\ loc' = loc
       ELSE \E k \in DOMAIN visits \ loc[t].scanned :
               /\ IF VisitMatches(visits[k], req[t].args)
                  THEN /\ loc' = [loc EXCEPT ![t].cur = k, ![t].at = visits[k].location]
                       /\ pc' = [pc EXCEPT ![t] = "qv_getLocation_RLock"]
                  ELSE /\ loc' = [loc EXCEPT ![t].scanned = @ \cup {k}]
                       /\ pc' = pc
               /\ UNCHANGED <<mux, ret>>
    /\ UNCHANGED <<maps, req, nops>>

\* location := db.getLocation(v.Location): RLock on the mutex the scan holds.
QvGetLocationRLock(t) ==
    /\ DoRLock(t, "qv_getLocation")
    /\ UNCHANGED <<maps, req, loc, ret, nops>>

\* getLocation returns d.locations[id] and unlocks its read lock.  Back in the
\* scan, location.Country on a nil location panics: the deferred RUnlock of
\* queryVisits runs and net/http recovers the panic.  Otherwise the location
\* filters are applied and a passing visit is appended.
QvGetLocationRead(t) ==
    /\ pc[t] = "qv_getLocation_read"
    /\ LET p == Lookup("locations", loc[t].at)
       IN IF p = NilPtr
          THEN /\ ret' = [ret EXCEPT ![t] = [status |-> "panic"]]
               /\ mux' = [mux EXCEPT !.r[t] = @ - 2]
               /\ pc' = [pc EXCEPT ![t] = "done"]
               /\ loc' = loc
          ELSE LET l == locations[p]
                   v == visits[loc[t].cur]
               IN /\ loc' = [loc EXCEPT ![t].scanned = @ \cup {loc[t].cur},
                                        ![t].out = IF LocationMatches(l, req[t].args)
                                                   THEN Append(@, VisitPlace(l.place, v.visited_at, v.mark))
                                                   ELSE @]
                  /\ mux' = RUnlock(t)
                  /\ pc' = [pc EXCEPT ![t] = "qv_range"]
                  /\ ret' = ret
    /\ UNCHANGED <<maps, req, nops>>

Next ==
    \E t \in Threads :
        \/ StartAdd(t) \/ AddLock(t) \/ AddLockWait(t) \/ AddCheck(t) \/ AddStore(t)
        \/ StartGet(t) \/ GetRLock(t) \/ GetRead(t) \/ GetEncode(t)
        \/ StartUpdate(t) \/ UpdRLock(t) \/ UpdRead(t) \/ UpdWrite(t)
        \/ StartQueryVisits(t) \/ QvRLock(t) \/ QvRange(t)
        \/ QvGetLocationRLock(t) \/ QvGetLocationRead(t)

Spec == Init /\ [][Next]_vars

(***************************************************************************)
(* The query engine on a store that nobody writes: the store and the       *)
(* arguments of one queryVisits call are drawn from bounded sets, the call *)
(* runs, and the client sends the same request again.                      *)
(***************************************************************************)
VisitIDs == 1..MaxVisits

\* Visit k is a visit of user 1 to either location at one of three times, or
\* a visit of user 2.
VisitsOf(k) ==
    { Visit(k, l, 1, at, 2 + (k % 2)) : l \in {1, 2}, at \in {100, 200, 300} }
        \cup { Visit(k, 1, 2, 200, 2 + (k % 2)) }

QueryStores ==
    { vs \in [VisitIDs -> UNION { VisitsOf(k) : k \in VisitIDs }] :
        \A k \in VisitIDs : vs[k] \in VisitsOf(k) }

\* No filter, each filter alone, and all of them.
QueryInputs ==
    { [userID |-> 1, fromDate |-> 0, toDate |-> 400, country |-> "", toDistance |-> 100],
      [userID |-> 1, fromDate |-> 100, toDate |-> 300, country |-> "", toDistance |-> 100],
      [userID |-> 1, fromDate |-> 0, toDate |-> 400, country |-> "US", toDistance |-> 100],
      [userID |-> 1, fromDate |-> 0, toDate |-> 400, country |-> "", toDistance |-> 50],
      [userID |-> 1, fromDate |-> 100, toDate |-> 300, country |-> "RU", toDistance |-> 50] }

InitQ ==
    /\ users = Loaded({User(1, "a@x", "A", "L", "m", 100), User(2, "b@x", "B", "L", "f", 200)})
    /\ locations = Loaded({Location(1, "P", "RU", "C", 10), Location(2, "Q", "US", "D", 50)})
    /\ visits \in QueryStores
    /\ mux = RWMutex
    /\ \E a \in QueryInputs :
          req = [t \in Threads |-> IF t = 1 THEN [kind |-> "queryVisits", args |-> a] ELSE NoReq]
    /\ pc = [t \in Threads |-> IF t = 1 THEN "qv_RLock" ELSE "idle"]
    /\ loc = [t \in Threads |-> NoLoc]
    /\ ret = [t \in Threads |-> NoRet]
    /\ nops = MaxOps - 1

\* The same request once more: ret still holds what the first call returned.
Repeat(t) ==
    /\ pc[t] = "done" /\ nops < MaxOps
    /\ req[t].kind = "queryVisits"
    /\ pc' = [pc EXCEPT ![t] = "qv_RLock"]
    /\ loc' = [loc EXCEPT ![t] = NoLoc]
    /\ nops' = nops + 1
    /\ UNCHANGED <<maps, mux, req, ret>>

NextQ ==
    \E t \in Threads :
        \/ QvRLock(t) \/ QvRange(t) \/ QvGetLocationRLock(t) \/ QvGetLocationRead(t)
        \/ Repeat(t)

SpecQ == InitQ /\ [][NextQ]_vars

(***************************************************************************)
(* float64.  A finite non-zero value is its sign, the 53 bits of its       *)
(* significand (most significant first, the first bit is 1) and the binary *)
(* exponent e of that first bit: the value is 1.m[2]...m[53] * 2^e.  Every *)
(* operation rounds its exact result to nearest, ties to even.             *)
(***************************************************************************)
MantissaBits == 53

FloatZero == [k |-> "zero"]
FloatNaN == [k |-> "nan"]
Float(neg, m, e) == [k |-> "num", neg |-> neg, m |-> m, e |-> e]

Abs(n) == IF n < 0 THEN -n ELSE n

\* The last w binary digits of n, most significant first.
ToBits(n, w) == [i \in 1..w |-> (n \div 2^(w - i)) % 2]

\* The number of binary digits of n, 0 < n < 2^30.
BitLen(n) == CHOOSE w \in 1..30 : 2^(w - 1) <= n /\ n < 2^w

RECURSIVE FromBits(_)
FromBits(b) ==
    IF Len(b) = 0 THEN 0
    ELSE IF Len(b) = 1 THEN b[1]
    ELSE LET h == Len(b) \div 2
         IN FromBits(SubSeq(b, 1, h)) * 2^(Len(b) - h) + FromBits(SubSeq(b, h + 1, Len(b)))

\* a / c scaled by a power of two so that d <= n < 2d; e is the exponent of
\* the first bit of the quotient.
RECURSIVE Normalise(_, _, _)
Normalise(a, c, e) ==
    IF a >= 2 * c THEN Normalise(a, 2 * c, e + 1)
    ELSE IF a < c THEN Normalise(2 * a, c, e - 1)
    ELSE [n |-> a, d |-> c, e |-> e]

\* Long division, LimbBits bits at a time: the next k limbs of r / d (r < d)
\* after the binary point, and what is left.
LimbBits == 9

RECURSIVE DivBits(_, _, _)
DivBits(r, d, k) ==
    IF k = 0 THEN [bits |-> <<>>, rem |-> r]
    ELSE LET rest == DivBits((r * 2^LimbBits) % d, d, k - 1)
         IN [bits |-> ToBits((r * 2^LimbBits) \div d, LimbBits) \o rest.bits, rem |-> rest.rem]

\* The bits of b * k + carry for a small k: multiplication limb by limb from
\* the last one.
RECURSIVE MulBits(_, _, _)
MulBits(b, k, carry) ==
    IF Len(b) = 0 THEN (IF carry = 0 THEN <<>> ELSE ToBits(carry, BitLen(carry)))
    ELSE LET w == IF Len(b) < LimbBits THEN Len(b) ELSE LimbBits
             t == FromBits(SubSeq(b, Len(b) - w + 1, Len(b))) * k + carry
         IN MulBits(SubSeq(b, 1, Len(b) - w), k, t \div 2^w) \o ToBits(t % 2^w, w)

\* b + 1 for a b that is not all ones.
IncBits(b) ==
    LET j == CHOOSE i \in 1..Len(b) : b[i] = 0 /\ \A l \in (i + 1)..Len(b) : b[l] = 1
    IN [i \in 1..Len(b) |-> IF i < j THEN b[i] ELSE IF i = j THEN 1 ELSE 0]

\* Round to nearest, ties to even: p holds more than 53 bits of the exact
\* result, whose first bit has exponent e; sticky says that non-zero bits
\* follow those of p.
RoundToEven(neg, p, e, sticky) ==
    LET m == SubSeq(p, 1, MantissaBits)
        guard == p[MantissaBits + 1] = 1
        below == sticky \/ \E i \in (MantissaBits + 2)..Len(p) : p[i] = 1
        up == guard /\ (below \/ m[MantissaBits] = 1)
    IN IF ~up THEN Float(neg, m, e)
       ELSE IF \A i \in 1..MantissaBits : m[i] = 1
            THEN Float(neg, <<1>> \o [i \in 1..(MantissaBits - 1) |-> 0], e + 1)
            ELSE Float(neg, IncBits(m), e)

\* float64(s) / float64(c) for integers that float64 holds exactly.
Float64Quotient(s, c) ==
    IF c = 0 THEN FloatNaN
    ELSE IF s = 0 THEN FloatZero
    ELSE LET n == Normalise(Abs(s), Abs(c), 0)
             q == DivBits(n.n - n.d, n.d, 6)
         IN RoundToEven((s < 0) # (c < 0), <<1>> \o q.bits, n.e, q.rem # 0)

\* x * k for a small positive integer k.
Float64Times(x, k) ==
    IF x.k # "num" THEN x
    ELSE LET prod == MulBits(x.m, k, 0)
         IN RoundToEven(x.neg, prod, x.e + Len(prod) - MantissaBits, FALSE)

\* math.Round(x) as an integer: x is below 2^31 in magnitude, so the integer
\* part is the first e + 1 bits and the next bit says whether the fraction
\* reaches one half; halves go away from zero.
MathRound(x) ==
    LET mag == IF x.e < -1 THEN 0
               ELSE IF x.e = -1 THEN 1
               ELSE FromBits(SubSeq(x.m, 1, x.e + 1)) + x.m[x.e + 2]
    IN IF x.k = "zero" THEN 0 ELSE IF x.neg THEN -mag ELSE mag

(***************************************************************************)
(* computeAge.  time.Unix(birth, 0) is read in the zone of the process,    *)
(* which is UTC in the image the Dockerfile builds; Year, Month and Day of *)
(* a Unix time are found from the count of days since 1 March of year 0.   *)
(***************************************************************************)
SecondsPerDay == 86400

\* Mutant: now := time.Now(), a clock that moves on by a year between one
\* request and the next.
TimeNow == [year |-> 2018 + nops - 1, month |-> 12, day |-> 15]

\* now := time.Date(2018, 12, 15, 20, 33, 0, 0, time.UTC)
Now == [year |-> 2018, month |-> 12, day |-> 15]

\* Year(), Month() and Day() of time.Unix(sec, 0).
UnixDate(sec) ==
    LET z == (sec \div SecondsPerDay) + 719468
        era == z \div 146097
        doe == z - era * 146097
        yoe == (doe - (doe \div 1460) + (doe \div 36524) - (doe \div 146096)) \div 365
        doy == doe - (365 * yoe + (yoe \div 4) - (yoe \div 100))
        mp == (5 * doy + 2) \div 153
        m == IF mp < 10 THEN mp + 3 ELSE mp - 9
    IN [year |-> yoe + era * 400 + (IF m <= 2 THEN 1 ELSE 0),
        month |-> m,
        day |-> doy - ((153 * mp + 2) \div 5) + 1]

\* Mutant: the year is not decremented when the birthday is still to come.
computeAgeByYear(birth) == Now.year - UnixDate(birth).year

computeAge(birth) ==
    LET birthTime == UnixDate(birth)
        years == Now.year - birthTime.year
    IN IF \/ Now.month < birthTime.month
          \/ (Now.month = birthTime.month /\ Now.day < birthTime.day)
       THEN years - 1
       ELSE years

\* The birth dates computeAge is run on: the days around the birthday of
\* 15 December, the turn of the year and of the month, leap days, years on
\* both sides of 1970, at the start, in the evening and in the last second
\* of the day.
BirthYears == {1930, 1970, 1999, 2000, 2001, 2018}

BirthDays ==
    { [year |-> y, month |-> m, day |-> d] :
        y \in BirthYears, m \in {1, 2, 11, 12}, d \in {1, 14, 15, 16, 28} }
      \cup { [year |-> 1972, month |-> 2, day |-> 29], [year |-> 2000, month |-> 2, day |-> 29] }

BirthSeconds == {0, 74000, 86399}

LeapYear(y) == y % 4 = 0 /\ (y % 100 # 0 \/ y % 400 = 0)

\* Leap years among the years 1..y.
LeapYearsTo(y) == (y \div 4) - (y \div 100) + (y \div 400)

DaysBeforeMonth(m, y) ==
    <<0, 31, 59, 90, 120, 151, 181, 212, 243, 273, 304, 334>>[m]
        + (IF m > 2 /\ LeapYear(y) THEN 1 ELSE 0)

\* The Unix time of second s of the day d: the birth int64 of a user born then.
UnixOf(d, s) ==
    (365 * (d.year - 1970) + LeapYearsTo(d.year - 1) - LeapYearsTo(1969)
        + DaysBeforeMonth(d.month, d.year) + d.day - 1) * SecondsPerDay + s

InitAge ==
    /\ users = <<>> /\ locations = <<>> /\ visits = <<>>
    /\ mux = RWMutex
    /\ \E d \in BirthDays : \E s \in BirthSeconds :
          req = [t \in Threads |->
                    IF t = 1 THEN [kind |-> "computeAge", birth |-> UnixOf(d, s), date |-> d]
                    ELSE NoReq]
    /\ pc = [t \in Threads |-> IF t = 1 THEN "age" ELSE "idle"]
    /\ loc = [t \in Threads |-> NoLoc]
    /\ ret = [t \in Threads |-> NoRet]
    /\ nops = 0

ComputeAge(t) ==
    /\ pc[t] = "age"
    /\ ret' = [ret EXCEPT ![t] = [status |-> "ok", age |-> computeAge(req[t].birth)]]
    /\ pc' = [pc EXCEPT ![t] = "done"]
    /\ UNCHANGED <<maps, mux, req, loc, nops>>

NextAge == \E t \in Threads : ComputeAge(t)

SpecAge == InitAge /\ [][NextAge]_vars

(***************************************************************************)
(* queryAverage and the end of getLocationAverageHandler.                  *)
(***************************************************************************)
QaRLock(t) ==
    /\ DoRLock(t, "qa")
    /\ UNCHANGED <<maps, req, loc, ret, nops>>

\* Mutant: the upper date bound is inclusive.
VisitCountsInclusive(v, a) ==
    /\ a.locationID = v.location
    /\ ~(a.fromDate >= v.visited_at)
    /\ ~(a.toDate < v.visited_at)

\* Lines 270-279: the visit is to the location and strictly inside the date range.
VisitCounts(v, a) ==
    /\ a.locationID = v.location
    /\ ~(a.fromDate >= v.visited_at)
    /\ ~(a.toDate <= v.visited_at)

\* Lines 282-292: the gender filter, when given, and the age bounds.
UserCounts(u, a) ==
    /\ ~(a.gender # "" /\ a.gender # u.gender)
    /\ ~(a.fromAge >= computeAge(u.birth_date))
    /\ ~(a.toAge <= computeAge(u.birth_date))

\* Mutant: no branch for an empty selection.
CountIsZeroNever(c) == FALSE

\* if count == 0
CountIsZero(c) == c = 0

\* for _, v := range d.visits, as in queryVisits.  After the last key the
\* method returns 0 or float64(sum) / float64(count), the deferred RUnlock
\* runs and the handler goes on with the average.
QaRange(t) ==
    /\ pc[t] = "qa_range"
    /\ IF DOMAIN visits \subseteq loc[t].scanned
       THEN /\ loc' = [loc EXCEPT ![t].average =
                          IF CountIsZero(loc[t].count) THEN FloatZero
                          ELSE Float64Quotient(loc[t].sum, loc[t].count)]
            /\ mux' = RUnlock(t)
            /\ pc' = [pc EXCEPT ![t] = "avg_round"]
       ELSE \E k \in DOMAIN visits \ loc[t].scanned :
               /\ IF VisitCounts(visits[k], req[t].args)
                  THEN /\ loc' = [loc EXCEPT ![t].cur = k, ![t].at = visits[k].user]
                       /\ pc' = [pc EXCEPT ![t] = "qa_getUser_RLock"]
                  ELSE /\ loc' = [loc EXCEPT ![t].scanned = @ \cup {k}]
                       /\ pc' = pc
               /\ mux' = mux
    /\ UNCHANGED <<maps, req, ret, nops>>

\* user := db.getUser(v.User): RLock on the mutex the scan holds.
QaGetUserRLock(t) ==
    /\ DoRLock(t, "qa_getUser")
    /\ UNCHANGED <<maps, req, loc, ret, nops>>

\* getUser returns d.users[id] and unlocks its read lock.  user.Gender or
\* user.BirthDate on a nil user panics, as in queryVisits.  Otherwise the user
\* filters are applied and a passing visit is counted.
QaGetUserRead(t) ==
    /\ pc[t] = "qa_getUser_read"
    /\ LET p == Lookup("users", loc[t].at)
       IN IF p = NilPtr
          THEN /\ ret' = [ret EXCEPT ![t] = [status |-> "panic"]]
               /\ mux' = [mux EXCEPT !.r[t] = @ - 2]
               /\ pc' = [pc EXCEPT ![t] = "done"]
               /\ loc' = loc
          ELSE LET counts == UserCounts(users[p], req[t].args)
                   v == visits[loc[t].cur]
               IN /\ loc' = [loc EXCEPT ![t].scanned = @ \cup {loc[t].cur},
                                        ![t].count = IF counts THEN @ + 1 ELSE @,
                                        ![t].sum = IF counts THEN @ + v.mark ELSE @]
                  /\ mux' = RUnlock(t)
                  /\ pc' = [pc EXCEPT ![t] = "qa_range"]
                  /\ ret' = ret
    /\ UNCHANGED <<maps, req, nops>>

\* average5Digit := math.Round(average*100000) / 100000, and Encode.  The
\* answer is kept as the integer math.Round returns, in units of 0.00001: the
\* quotient by 100000 is the float64 nearest to that decimal, and the encoder
\* writes the shortest decimal that reads back as the same float64, which is
\* that decimal.  Encode refuses NaN, and the handler logs the error.
AvgEncode(t) ==
    /\ pc[t] = "avg_round"
    /\ ret' = [ret EXCEPT ![t] =
                  IF loc[t].average.k = "nan" THEN [status |-> "error"]
                  ELSE [status |-> "ok",
                        avg |-> MathRound(Float64Times(loc[t].average, 100000))]]
    /\ pc' = [pc EXCEPT ![t] = "done"]
    /\ UNCHANGED <<maps, mux, req, loc, nops>>

(***************************************************************************)
(* queryAverage on a store that nobody writes, sent twice.                 *)
(***************************************************************************)
\* Three users: a man of 18, a woman of 30 and a man of 17 on 15 December 2018.
AverageUsers ==
    { User(1, "a@x", "A", "L", "m", UnixOf([year |-> 2000, month |-> 12, day |-> 15], 0)),
      User(2, "b@x", "B", "L", "f", UnixOf([year |-> 1988, month |-> 6, day |-> 1], 0)),
      User(3, "c@x", "C", "L", "m", UnixOf([year |-> 2000, month |-> 12, day |-> 16], 0)) }

\* Visit k has mark 2k and is a visit to location 1 at time 200 by one of the
\* users, or by user 1 at time 100 or 300, or a visit of user 1 to location 2.
AverageVisitsOf(k) ==
    { Visit(k, 1, u, 200, 2 * k) : u \in {1, 2, 3} }
        \cup { Visit(k, 1, 1, 100, 2 * k), Visit(k, 1, 1, 300, 2 * k), Visit(k, 2, 1, 200, 2 * k) }

AverageStores ==
    { vs \in [VisitIDs -> UNION { AverageVisitsOf(k) : k \in VisitIDs }] :
        \A k \in VisitIDs : vs[k] \in AverageVisitsOf(k) }

\* No filter, each filter alone, and all of them.
AverageInputs ==
    { [locationID |-> 1, fromDate |-> 0, toDate |-> 400, fromAge |-> 0, toAge |-> 200, gender |-> ""],
      [locationID |-> 1, fromDate |-> 100, toDate |-> 300, fromAge |-> 0, toAge |-> 200, gender |-> ""],
      [locationID |-> 1, fromDate |-> 0, toDate |-> 400, fromAge |-> 17, toAge |-> 30, gender |-> ""],
      [locationID |-> 1, fromDate |-> 0, toDate |-> 400, fromAge |-> 0, toAge |-> 200, gender |-> "m"],
      [locationID |-> 1, fromDate |-> 100, toDate |-> 300, fromAge |-> 17, toAge |-> 30, gender |-> "m"] }

InitA ==
    /\ users = Loaded(AverageUsers)
    /\ locations = Loaded({Location(1, "P", "RU", "C", 10), Location(2, "Q", "US", "D", 50)})
    /\ visits \in AverageStores
    /\ mux = RWMutex
    /\ \E a \in AverageInputs :
          req = [t \in Threads |-> IF t = 1 THEN [kind |-> "queryAverage", args |-> a] ELSE NoReq]
    /\ pc = [t \in Threads |-> IF t = 1 THEN "qa_RLock" ELSE "idle"]
    /\ loc = [t \in Threads |-> NoLoc]
    /\ ret = [t \in Threads |-> NoRet]
    /\ nops = MaxOps - 1

\* The same request once more: ret still holds what the first call returned.
RepeatAverage(t) ==
    /\ pc[t] = "done" /\ nops < MaxOps
    /\ req[t].kind = "queryAverage"
    /\ pc' = [pc EXCEPT ![t] = "qa_RLock"]
    /\ loc' = [loc EXCEPT ![t] = NoLoc]
    /\ nops' = nops + 1
    /\ UNCHANGED <<maps, mux, req, ret>>

NextA ==
    \E t \in Threads :
        \/ QaRLock(t) \/ QaRange(t) \/ QaGetUserRLock(t) \/ QaGetUserRead(t)
        \/ AvgEncode(t) \/ RepeatAverage(t)

SpecA == InitA /\ [][NextA]_vars

(***************************************************************************)
(* The end of queryAverage and the rounding of the handler on larger       *)
(* stores: every visit is a visit of user 1 to location 1 that passes the  *)
(* filters, the scan has gone through all of them, and count and sum are   *)
(* what it has added up.                                                   *)
(***************************************************************************)
MaxSum == 30

RoundCounts == {1, 3, 7, 64, 320}

\* c visits whose marks add up to s.
ScannedStore(s, c) ==
    [k \in 1..c |-> Visit(k, 1, 1, 200, (s \div c) + (IF k <= s % c THEN 1 ELSE 0))]

InitRound ==
    /\ users = Loaded(AverageUsers)
    /\ locations = Loaded({Location(1, "P", "RU", "C", 10)})
    /\ mux = [RWMutex EXCEPT !.r[1] = 1]
    /\ req = [t \in Threads |->
                 IF t = 1
                 THEN [kind |-> "queryAverage",
                       args |-> [locationID |-> 1, fromDate |-> 0, toDate |-> 400,
                                 fromAge |-> 0, toAge |-> 200, gender |-> ""]]
                 ELSE NoReq]
    /\ pc = [t \in Threads |-> IF t = 1 THEN "qa_range" ELSE "idle"]
    /\ ret = [t \in Threads |-> NoRet]
    /\ nops = MaxOps
    /\ \E c \in RoundCounts : \E s \in (-MaxSum)..MaxSum :
          /\ visits = ScannedStore(s, c)
          /\ loc = [t \in Threads |->
                       IF t = 1 THEN [NoLoc EXCEPT !.scanned = 1..c, !.count = c, !.sum = s]
                       ELSE NoLoc]

NextRound == \E t \in Threads : QaRange(t) \/ AvgEncode(t)

SpecRound == InitRound /\ [][NextRound]_vars

(***************************************************************************)
(* initializeData, record by record: before the server listens, one        *)
(* goroutine goes through the files of data.zip and hands every record to  *)
(* addUser, addLocation or addVisit, whose result it drops.  The log       *)
(* (loc.out) gets the line "Loading <file>" and nothing else.              *)
(***************************************************************************)
MaxLoad == 3

\* The files of the archive, each with one record: users and locations and
\* visits under two ids, the users with two different contents.
ZipFiles ==
    { [coll |-> "users", rec |-> User(k, "a@x", "A", "L", "m", 100)] : k \in 1..2 }
      \cup { [coll |-> "users", rec |-> User(k, "b@x", "B", "L", "f", 200)] : k \in 1..2 }
      \cup { [coll |-> "locations", rec |-> Location(k, "P", "RU", "C", 10)] : k \in 1..2 }
      \cup { [coll |-> "visits", rec |-> Visit(k, 1, 1, 200, 2)] : k \in 1..2 }

InitLoad ==
    /\ users = <<>> /\ locations = <<>> /\ visits = <<>>
    /\ mux = RWMutex
    /\ \E fs \in [1..MaxLoad -> ZipFiles] :
          req = [t \in Threads |-> IF t = 1 THEN [kind |-> "load", files |-> fs] ELSE NoReq]
    /\ pc = [t \in Threads |-> IF t = 1 THEN "load" ELSE "idle"]
    /\ loc = [t \in Threads |-> NoLoc]
    /\ ret = [t \in Threads |-> NoRet]
    /\ nops = 0

\* One turn of for _, f := range r.File: log.Println("Loading", f.Name) and
\* db.addUser(u) (Lock, lookup, store or errConflictID, Unlock) with the
\* result dropped; after the last file, return nil.
LoadFile(t) ==
    /\ pc[t] = "load"
    /\ IF loc[t].at = Len(req[t].files)
       THEN /\ ret' = [ret EXCEPT ![t] = [status |-> "ok"]]
            /\ pc' = [pc EXCEPT ![t] = "done"]
            /\ UNCHANGED <<maps, loc>>
       ELSE LET f == req[t].files[loc[t].at + 1]
                conflict == Lookup(f.coll, f.rec.id) # NilPtr
            IN /\ loc' = [loc EXCEPT ![t].at = @ + 1,
                                     ![t].out = Append(@, [loading |-> loc[t].at + 1])]
               /\ users' = IF f.coll = "users" /\ ~conflict
                           THEN Store(users, f.rec.id, f.rec) ELSE users
               /\ locations' = IF f.coll = "locations" /\ ~conflict
                               THEN Store(locations, f.rec.id, f.rec) ELSE locations
               /\ visits' = IF f.coll = "visits" /\ ~conflict
                            THEN Store(visits, f.rec.id, f.rec) ELSE visits
               /\ UNCHANGED <<pc, ret>>
    /\ UNCHANGED <<mux, req, nops>>

NextLoad == \E t \in Threads : LoadFile(t)

SpecLoad == InitLoad /\ [][NextLoad]_vars

(***************************************************************************)
(* getUserVisitsHandler on a store that nobody writes: the query string of *)
(* the request is parsed, absent parameters take their defaults, and the   *)
(* scan runs with the resulting arguments.  The integers of the model are  *)
(* narrower than int64; the filters only compare, so the two ends of the   *)
(* model's range stand for the two ends of int64.                          *)
(***************************************************************************)
\* math.MaxInt64 and math.MinInt64: the largest and the smallest value a
\* visited_at, a distance or a bound can take.
MaxInt64 == 2147483647

MinInt64 == (0 - MaxInt64) - 1

Digits == {"0", "1", "2", "3", "4", "5", "6", "7", "8", "9"}

DigitValue(c) ==
    CASE c = "0" -> 0 [] c = "1" -> 1 [] c = "2" -> 2 [] c = "3" -> 3 [] c = "4" -> 4
      [] c = "5" -> 5 [] c = "6" -> 6 [] c = "7" -> 7 [] c = "8" -> 8 [] c = "9" -> 9

RECURSIVE DecimalValue(_)
DecimalValue(s) ==
    IF s = <<>> THEN 0
    ELSE 10 * DecimalValue(SubSeq(s, 1, Len(s) - 1)) + DigitValue(s[Len(s)])

\* strconv.ParseInt(s, 10, 64) on a non-empty string of a few characters: an
\* optional sign and then at least one digit, or a syntax error.
ParseInt(s) ==
    LET signed == s[1] \in {"+", "-"}
        digits == IF signed THEN Tail(s) ELSE s
    IN IF digits = <<>> \/ \E i \in 1..Len(digits) : digits[i] \notin Digits
       THEN [err |-> TRUE, value |-> 0]
       ELSE [err |-> FALSE,
             value |-> IF s[1] = "-" THEN 0 - DecimalValue(digits) ELSE DecimalValue(digits)]

parseInt64OrDefault(s, d) ==
    IF Len(s) = 0 THEN [err |-> FALSE, value |-> d] ELSE ParseInt(s)

\* The values of r.URL.Query() the handler reads; <<>> is an absent parameter.
QueryStrings ==
    { [fromDate |-> f, toDate |-> u, country |-> "", toDistance |-> d] :
        f \in {<<>>, <<"1", "0", "0">>, <<"-", "5">>, <<"x">>},
        u \in {<<>>, <<"3", "0", "0">>, <<"3", "x">>},
        d \in {<<>>, <<"5", "0">>, <<"x">>} }

\* Two visits of user 1 to location 1, each as early or as late as a visit
\* can be, or in between; the location is as far as a location can be, or near.
DefaultsVisits ==
    { Loaded({Visit(1, 1, 1, a, 2), Visit(2, 1, 1, b, 3)}) :
        a \in {MinInt64, 200, MaxInt64}, b \in {MinInt64, 250, MaxInt64} }

InitDefaults ==
    /\ users = Loaded({User(1, "a@x", "A", "L", "m", 100)})
    /\ \E d \in {10, MaxInt64} : locations = Loaded({Location(1, "P", "RU", "C", d)})
    /\ visits \in DefaultsVisits
    /\ mux = RWMutex
    /\ \E u \in {1, 2}, q \in QueryStrings :
          req = [t \in Threads |->
                   IF t = 1 THEN [kind |-> "queryVisits", userID |-> u, query |-> q, args |-> <<>>]
                   ELSE NoReq]
    /\ pc = [t \in Threads |-> IF t = 1 THEN "guv" ELSE "idle"]
    /\ loc = [t \in Threads |-> NoLoc]
    /\ ret = [t \in Threads |-> NoRet]
    /\ nops = MaxOps

\* Lines 450-470: 404 for an unknown user, 400 for a fromDate or toDate that
\* is not a number; the error of toDistance is dropped, and with it the
\* bound is the zero parseInt64OrDefault returned.  db.getUser takes and
\* releases the read lock; no writer runs here.
GetUserVisits(t) ==
    /\ pc[t] = "guv"
    /\ LET q == req[t].query
           fromDate == parseInt64OrDefault(q.fromDate, MinInt64)
           toDate == parseInt64OrDefault(q.toDate, MaxInt64)
           toDistance == parseInt64OrDefault(q.toDistance, MaxInt64)
       IN IF Lookup("users", req[t].userID) = NilPtr
          THEN /\ ret' = [ret EXCEPT ![t] = NotFound]
               /\ pc' = [pc EXCEPT ![t] = "done"]
               /\ req' = req
          ELSE IF fromDate.err \/ toDate.err
          THEN /\ ret' = [ret EXCEPT ![t] = [status |-> "badreq"]]
               /\ pc' = [pc EXCEPT ![t] = "done"]
               /\ req' = req
          ELSE /\ req' = [req EXCEPT ![t].args =
                            [userID |-> req[t].userID, fromDate |-> fromDate.value,
                             toDate |-> toDate.value, country |-> q.country,
                             toDistance |-> toDistance.value]]
               /\ pc' = [pc EXCEPT ![t] = "qv_RLock"]
               /\ ret' = ret
    /\ UNCHANGED <<maps, mux, loc, nops>>

NextDefaults ==
    \E t \in Threads :
        \/ GetUserVisits(t)
        \/ QvRLock(t) \/ QvRange(t) \/ QvGetLocationRLock(t) \/ QvGetLocationRead(t)

SpecDefaults == InitDefaults /\ [][NextDefaults]_vars

(***************************************************************************)
(* Properties.                                                             *)
(***************************************************************************)
Stored(c, k) == Coll(c)[k]

\* Goroutine t takes the step that ends its insert.
AddReturns(t) == pc[t] = "add_store" /\ pc'[t] = "done"

\* C1: an insert whose id is already present in its collection returns the
\* conflict error and leaves every record of the three collections as it was.
C1_ConflictKeepsRecord ==
    [][\A t \in Threads :
          (AddReturns(t) /\ Present(req[t].coll, req[t].id))
              => (ret'[t].status = "conflict" /\ maps' = maps)]_vars

C1_Witness ==
    \E t \in Threads :
        /\ pc[t] = "done" /\ req[t].kind = "add" /\ ret[t].status = "conflict"
        /\ Present(req[t].coll, req[t].id)
        /\ Stored(req[t].coll, req[t].id) # req[t].rec

\* C2: the check and the write of an insert are one step for the other
\* inserts: an insert succeeds exactly when no record is stored under its id
\* at the moment it writes, it then stores the record it was passed, and no
\* two inserts of one id into one collection both succeed.
C2_AtomicInsert ==
    [][\A t \in Threads :
          AddReturns(t) =>
              /\ (ret'[t].status = "ok") <=> ~Present(req[t].coll, req[t].id)
              /\ ret'[t].status \in {"ok", "conflict"}
              /\ ret'[t].status = "ok" => Stored(req[t].coll, req[t].id)' = req[t].rec
              /\ \A u \in Threads \ {t} :
                    (pc[u] = "done" /\ req[u].kind = "add" /\ req[u].coll = req[t].coll
                        /\ req[u].id = req[t].id /\ ret[u].status = "ok")
                    => ret'[t].status = "conflict"]_vars

C2_Witness ==
    \E t, u \in Threads :
        /\ pc[t] = "done" /\ req[t].kind = "add" /\ ret[t].status = "ok"
        /\ pc[u] = "done" /\ req[u].kind = "add" /\ ret[u].status = "conflict"
        /\ req[u].coll = req[t].coll /\ req[u].id = req[t].id /\ req[u].rec # req[t].rec
        /\ Stored(req[t].coll, req[t].id) = req[t].rec

\* C3: a goroutine that assigns the fields of an update holds the write lock.
C3_UpdateHoldsLock ==
    \A t \in Threads : pc[t] = "upd_write" => HoldsLock(t)

\* C4: an operation that has started is never blocked for good: whenever
\* operations are in progress, one of them can take its next step.
InProgress(t) == pc[t] \notin {"idle", "done"}

Step(t) ==
    \/ AddLock(t) \/ AddLockWait(t) \/ AddCheck(t) \/ AddStore(t)
    \/ GetRLock(t) \/ GetRead(t) \/ GetEncode(t)
    \/ UpdRLock(t) \/ UpdRead(t) \/ UpdWrite(t)
    \/ QvRLock(t) \/ QvRange(t) \/ QvGetLocationRLock(t) \/ QvGetLocationRead(t)

C4_NoOperationBlocked ==
    (\E t \in Threads : InProgress(t)) => (\E t \in Threads : InProgress(t) /\ ENABLED Step(t))

\* C5: a get never returns a record that shows some of the fields of an update
\* in progress but not the others.
LeftFields(u) == { loc[u].left[i].field : i \in 1..Len(loc[u].left) }

PartialRead(r, u) ==
    /\ pc[r] = "get_encode" /\ pc'[r] = "done" /\ ret'[r].status = "ok"
    /\ pc[u] = "upd_write" /\ req[u].coll = req[r].coll /\ loc[u].ptr = loc[r].ptr
    /\ LET rec == ret'[r].body
           new == req[u].body.fields
           old == loc[u].old
       IN /\ \E f \in DOMAIN new \ LeftFields(u) : rec[f] = new[f] /\ rec[f] # old[f]
          /\ \E g \in LeftFields(u) : rec[g] = old[g] /\ rec[g] # new[g]

C5_NoPartialRecord ==
    [][\A r, u \in Threads : ~PartialRead(r, u)]_vars

\* C6: a step of an update changes no field but a field its body supplies, of
\* the record under its id, to the value the body gives; it creates no record;
\* and once an update that ran alone has answered, every supplied field holds
\* the supplied value.  An update with an empty body answers ok.
UpdSteps(t) ==
    /\ req[t].kind = "update"
    /\ pc[t] \in {"upd_RLock", "upd_read", "upd_write"}
    /\ <<pc[t], loc[t], ret[t]>> # <<pc'[t], loc'[t], ret'[t]>>

C6_PartialUpdate ==
    [][\A t \in Threads :
          UpdSteps(t) =>
              /\ \A c \in Collections :
                    /\ DOMAIN Coll(c)' = DOMAIN Coll(c)
                    /\ \A k \in DOMAIN Coll(c) : \A g \in DOMAIN Stored(c, k) :
                          Stored(c, k)'[g] # Stored(c, k)[g]
                              => /\ c = req[t].coll /\ k = req[t].id
                                 /\ g \in DOMAIN req[t].body.fields
                                 /\ Stored(c, k)'[g] = req[t].body.fields[g]
              /\ (pc'[t] = "done" /\ ret'[t].status = "ok" /\ nops = 1)
                    => \A g \in DOMAIN req[t].body.fields :
                          Stored(req[t].coll, req[t].id)'[g] = req[t].body.fields[g]
              /\ (pc[t] = "upd_read" /\ Present(req[t].coll, req[t].id)
                     /\ DOMAIN req[t].body.fields = {} /\ req[t].body.nulls = {})
                    => (pc'[t] = "done" /\ ret'[t].status = "ok")]_vars

C6_Witness ==
    \E t \in Threads :
        /\ pc[t] = "done" /\ req[t].kind = "update" /\ req[t].coll = "users"
        /\ ret[t].status = "ok"
        /\ DOMAIN req[t].body.fields = {"first_name"}
        /\ users[req[t].id].first_name = "X"
        /\ users[req[t].id].gender = "m"

\* C7: an update whose id is not in its collection answers not-found, and the
\* step that finds the id missing leaves the three collections as they were.
C7_UpdateNotFound ==
    [][\A t \in Threads :
          (UpdSteps(t) /\ pc[t] = "upd_read" /\ ~Present(req[t].coll, req[t].id))
              => (pc'[t] = "done" /\ ret'[t].status = "notfound" /\ maps' = maps)]_vars

C7_Witness ==
    \E t \in Threads :
        /\ pc[t] = "done" /\ req[t].kind = "update" /\ ret[t].status = "notfound"
        /\ DOMAIN req[t].body.fields # {}
        /\ ~Present(req[t].coll, req[t].id)

\* C8: an insert whose id is unused succeeds and the record is stored; a stored
\* record is never removed; a get that looks up a stored id finds it, and its
\* answer is the record stored under that id.
C8_InsertVisible ==
    [][/\ \A t \in Threads :
             /\ (AddReturns(t) /\ ~Present(req[t].coll, req[t].id))
                    => /\ ret'[t].status = "ok"
                       /\ Present(req[t].coll, req[t].id)'
                       /\ Stored(req[t].coll, req[t].id)' = req[t].rec
             /\ (pc[t] = "get_read" /\ pc'[t] = "get_encode")
                    => (loc'[t].ptr # NilPtr <=> Present(req[t].coll, req[t].id))
             /\ (pc[t] = "get_encode" /\ pc'[t] = "done")
                    => IF loc[t].ptr = NilPtr
                       THEN ret'[t].status = "notfound"
                       ELSE /\ ret'[t].status = "ok"
                            /\ ret'[t].body = Stored(req[t].coll, req[t].id)
                            /\ ret'[t].body.id = req[t].id
       /\ \A c \in Collections : \A k \in DOMAIN Coll(c) : k \in DOMAIN Coll(c)']_vars

C8_Witness ==
    \E t, u \in Threads :
        /\ pc[t] = "done" /\ req[t].kind = "add" /\ ret[t].status = "ok"
        /\ pc[u] = "done" /\ req[u].kind = "get" /\ ret[u].status = "ok"
        /\ req[u].coll = req[t].coll /\ req[u].id = req[t].id
        /\ ret[u].body = req[t].rec

\* C9: on a store that nobody writes, queryVisits returns one projection
\* {place, visited_at, mark} for each visit of the user with
\* fromDate < visited_at < toDate, location.distance < toDistance and, when a
\* country is given, location.country = country, and nothing else.
Qualifies(k, a) ==
    /\ visits[k].user = a.userID
    /\ a.fromDate < visits[k].visited_at /\ visits[k].visited_at < a.toDate
    /\ visits[k].location \in DOMAIN locations
    /\ locations[visits[k].location].distance < a.toDistance
    /\ (a.country = "" \/ locations[visits[k].location].country = a.country)

Projection(k) ==
    [place |-> locations[visits[k].location].place,
     visited_at |-> visits[k].visited_at,
     mark |-> visits[k].mark]

Occurrences(q, x) == Cardinality({ i \in 1..Len(q) : q[i] = x })

C9_QueryVisitsResult ==
    \A t \in Threads :
        (pc[t] = "done" /\ req[t].kind = "queryVisits" /\ ret[t].status = "ok")
            => LET a == req[t].args
                   Q == { k \in DOMAIN visits : Qualifies(k, a) }
               IN /\ Len(ret[t].body) = Cardinality(Q)
                  /\ \A k \in Q :
                        Occurrences(ret[t].body, Projection(k))
                            = Cardinality({ j \in Q : Projection(j) = Projection(k) })

C9_Witness ==
    \E t \in Threads :
        /\ pc[t] = "done" /\ req[t].kind = "queryVisits" /\ ret[t].status = "ok"
        /\ req[t].args.fromDate = 100 /\ req[t].args.toDate = 300
        /\ { visits[k].visited_at : k \in DOMAIN visits } = {100, 200, 300}
        /\ \A k \in DOMAIN visits : visits[k].user = 1 /\ visits[k].location = 1
        /\ Len(ret[t].body) = 1
        /\ ret[t].body[1] = VisitPlace("P", 200, visits[CHOOSE k \in DOMAIN visits : visits[k].visited_at = 200].mark)

\* C10: the same queryVisits sent twice to an unmodified store returns the
\* same list in the same order.
C10_SameOrderTwice ==
    [][\A t \in Threads :
          (pc[t] = "qv_range" /\ pc'[t] = "done"
              /\ ret[t].status = "ok" /\ ret'[t].status = "ok")
              => ret'[t].body = ret[t].body]_vars

\* C11: the list queryVisits returns is non-decreasing in visited_at.
C11_SortedByVisitedAt ==
    \A t \in Threads :
        (pc[t] = "done" /\ req[t].kind = "queryVisits" /\ ret[t].status = "ok")
            => \A i \in 1..(Len(ret[t].body) - 1) :
                  ret[t].body[i].visited_at <= ret[t].body[i + 1].visited_at

\* The scan met three qualifying visits latest first.
C11_Witness ==
    \E t \in Threads :
        /\ pc[t] = "done" /\ req[t].kind = "queryVisits" /\ ret[t].status = "ok"
        /\ Len(loc[t].out) = 3
        /\ loc[t].out[1].visited_at > loc[t].out[2].visited_at
        /\ loc[t].out[2].visited_at > loc[t].out[3].visited_at
        /\ Len(ret[t].body) = 3

\* C15: the age is the difference of the years, less one exactly when the
\* current month is before the birth month, or the months are equal and the
\* current day is before the birth day.  On 15 December 2018 a birth on
\* 14 December 2000 gives 18, one on 16 December 2000 gives 17, and one on
\* 15 December 2000 gives 18.
C15_AgeInWholeYears ==
    \A t \in Threads :
        (pc[t] = "done" /\ req[t].kind = "computeAge")
            => LET d == req[t].date
                   before == \/ 12 < d.month
                             \/ (12 = d.month /\ 15 < d.day)
               IN /\ ret[t].age = (2018 - d.year) - (IF before THEN 1 ELSE 0)
                  /\ (d.year = 2000 /\ d.month = 12 /\ d.day = 14) => ret[t].age = 18
                  /\ (d.year = 2000 /\ d.month = 12 /\ d.day = 16) => ret[t].age = 17
                  /\ (d.year = 2000 /\ d.month = 12 /\ d.day = 15) => ret[t].age = 18

\* A birth in the last second of 16 December 2000.
C15_Witness ==
    \E t \in Threads :
        /\ pc[t] = "done" /\ req[t].kind = "computeAge"
        /\ req[t].date = [year |-> 2000, month |-> 12, day |-> 16]
        /\ req[t].birth = 977011199
        /\ ret[t].age = 17

\* C12: queryAverage returns sum(mark) / count over exactly the visits to the
\* location with fromDate < visited_at < toDate, fromAge < age of the visiting
\* user < toAge and, when a gender is given, user.gender = gender; the
\* answer of the handler is within 0.000005 of that quotient.  Three
\* qualifying visits with marks 2, 4 and 6 give 4.
AgeOf(u) == <<18, 30, 17>>[u]

Averaged(k, a) ==
    /\ visits[k].location = a.locationID
    /\ a.fromDate < visits[k].visited_at /\ visits[k].visited_at < a.toDate
    /\ visits[k].user \in DOMAIN users
    /\ a.fromAge < AgeOf(visits[k].user) /\ AgeOf(visits[k].user) < a.toAge
    /\ (a.gender = "" \/ users[visits[k].user].gender = a.gender)

RECURSIVE SumOfMarks(_)
SumOfMarks(Q) ==
    IF Q = {} THEN 0
    ELSE LET k == CHOOSE x \in Q : TRUE IN visits[k].mark + SumOfMarks(Q \ {k})

AveragedVisits(t) == { k \in DOMAIN visits : Averaged(k, req[t].args) }

Four == [k |-> "num", neg |-> FALSE, m |-> [i \in 1..53 |-> IF i = 1 THEN 1 ELSE 0], e |-> 2]

C12_QueryAverageResult ==
    \A t \in Threads :
        (pc[t] = "done" /\ req[t].kind = "queryAverage")
            => LET Q == AveragedVisits(t)
                   n == Cardinality(Q)
                   s == SumOfMarks(Q)
               IN /\ ret[t].status = "ok"
                  /\ loc[t].count = n /\ loc[t].sum = s
                  /\ n > 0 => /\ loc[t].average = Float64Quotient(s, n)
                              /\ 2 * Abs(ret[t].avg * n - s * 100000) <= n
                  /\ { visits[k].mark : k \in Q } = {2, 4, 6}
                        => (loc[t].average = Four /\ ret[t].avg = 400000)

C12_Witness ==
    \E t \in Threads :
        /\ pc[t] = "done" /\ req[t].kind = "queryAverage" /\ ret[t].status = "ok"
        /\ req[t].args.fromAge = 17 /\ req[t].args.gender = "m" /\ req[t].args.fromDate = 100
        /\ AveragedVisits(t) = {1, 2, 3}
        /\ ret[t].avg = 400000

\* C13: when no visit passes the filters the result is 0, by the branch on
\* count = 0 and not by a division.
C13_ZeroCount ==
    \A t \in Threads :
        (pc[t] = "done" /\ req[t].kind = "queryAverage" /\ AveragedVisits(t) = {})
            => /\ loc[t].count = 0
               /\ loc[t].average = FloatZero
               /\ ret[t] = [status |-> "ok", avg |-> 0]

\* Every visit is to the location, and none passes the date filter.
C13_Witness ==
    \E t \in Threads :
        /\ pc[t] = "done" /\ req[t].kind = "queryAverage"
        /\ \A k \in DOMAIN visits : visits[k].location = 1 /\ visits[k].visited_at = 100
        /\ req[t].args.fromDate = 100
        /\ ret[t] = [status |-> "ok", avg |-> 0]

C14_DanglingSkipped ==
    \A t \in Threads :
        (pc[t] = "done" /\ req[t].kind = "queryVisits")
            => /\ ret[t].status = "ok"
               /\ Len(ret[t].body) <= Cardinality({ k \in DOMAIN visits : Qualifies(k, req[t].args) })

\* C17: the average in the answer is the exact quotient sum / count rounded to
\* the nearest multiple of 0.00001, an exact half going away from zero.
ExactRound(s, c) ==
    LET q == (2 * Abs(s) * 100000 + c) \div (2 * c)
    IN IF s < 0 THEN -q ELSE q

C17_RoundedExactQuotient ==
    \A t \in Threads :
        (pc[t] = "done" /\ req[t].kind = "queryAverage" /\ loc[t].count > 0)
            => /\ ret[t].status = "ok"
               /\ ret[t].avg = ExactRound(loc[t].sum, loc[t].count)

\* C18: a field the body supplies with an empty value ("" or 0) is written
\* like any other supplied field: it is among the fields the handler goes on
\* to assign, and its assignment stores the empty value.
C18_EmptyValueWritten ==
    [][\A t \in Threads :
          /\ (UpdSteps(t) /\ pc[t] = "upd_read" /\ Present(req[t].coll, req[t].id)
                 /\ req[t].body.nulls = {})
                => \A g \in DOMAIN req[t].body.fields :
                      req[t].body.fields[g] = ZeroValue(g)
                          => /\ pc'[t] = "upd_write"
                             /\ \E i \in 1..Len(loc'[t].left) :
                                   loc'[t].left[i] = [field |-> g, value |-> ZeroValue(g)]
          /\ (UpdSteps(t) /\ pc[t] = "upd_write"
                 /\ Head(loc[t].left).value = ZeroValue(Head(loc[t].left).field))
                => Stored(req[t].coll, req[t].id)'[Head(loc[t].left).field]
                      = ZeroValue(Head(loc[t].left).field)]_vars

\* The e-mail address of a user has been replaced by the empty string.
C18_Witness ==
    \E t \in Threads :
        /\ pc[t] = "done" /\ req[t].kind = "update" /\ req[t].coll = "users"
        /\ ret[t].status = "ok"
        /\ "email" \in DOMAIN req[t].body.fields /\ req[t].body.fields.email = ""
        /\ loc[t].old.email = "a@x"
        /\ users[req[t].id].email = ""

\* C19: no record is ever removed and no id ever changes: every key of a
\* collection stays a key and maps to a record whose id is the key, and a get
\* that finds the key answers with a record of that id.
C19_IdsImmutable ==
    [][/\ \A c \in Collections : \A k \in DOMAIN Coll(c) :
             /\ Stored(c, k).id = k
             /\ k \in DOMAIN Coll(c)'
             /\ Stored(c, k)'.id = k
       /\ \A c \in Collections : \A k \in DOMAIN Coll(c)' : Stored(c, k)'.id = k
       /\ \A t \in Threads :
             (pc[t] = "get_encode" /\ pc'[t] = "done" /\ ret'[t].status = "ok")
                 => ret'[t].body.id = req[t].id]_vars

\* A get after an update that changed the record.
C19_Witness ==
    \E t, u \in Threads :
        /\ pc[u] = "done" /\ req[u].kind = "update" /\ ret[u].status = "ok"
        /\ pc[t] = "done" /\ req[t].kind = "get" /\ ret[t].status = "ok"
        /\ req[t].coll = req[u].coll /\ req[t].id = req[u].id
        /\ loc[u].old # Stored(req[u].coll, req[u].id)
        /\ ret[t].body = Stored(req[t].coll, req[t].id)
        /\ ret[t].body.id = req[t].id

\* C20: while an insert into one collection is inside its write section, no
\* get, no query scan and no other insert, on whichever collection, is inside
\* its locked section; a get that calls RLock meanwhile has to wait.
InWriteSection(t) == pc[t] \in {"add_check", "add_store"}

InReadSection(t) ==
    pc[t] \in {"get_read", "upd_read", "qv_range", "qv_getLocation_RLock",
               "qv_getLocation_RWait", "qv_getLocation_read"}

C20_WriteExcludesAll ==
    [][\A t, u \in Threads :
          t # u =>
              /\ InWriteSection(t) => (~InWriteSection(u) /\ ~InReadSection(u))
              /\ InWriteSection(t)' => (~InWriteSection(u)' /\ ~InReadSection(u)')
              /\ (InWriteSection(t) /\ pc[u] = "get_RLock" /\ pc'[u] # pc[u])
                    => pc'[u] = "get_RWait"]_vars

\* A get on users waits while an insert into visits is in its write section.
C20_Witness ==
    \E t, u \in Threads :
        /\ pc[t] = "add_store" /\ req[t].coll = "visits"
        /\ pc[u] = "get_RWait" /\ req[u].coll = "users"

\* C21: a bulk load goes on after a record whose id is taken: when it has
\* ended, every record whose id was unused when its turn came is stored, the
\* record first stored under an id is the one kept, and every record that met
\* a conflict has been reported, in the log or in the result of the load.
FirstOfItsId(fs, i) ==
    \A j \in 1..(i - 1) : ~(fs[j].coll = fs[i].coll /\ fs[j].rec.id = fs[i].rec.id)

C21_BulkLoadReportsConflicts ==
    \A t \in Threads :
        (pc[t] = "done" /\ req[t].kind = "load")
            => LET fs == req[t].files
               IN \A i \in 1..Len(fs) :
                     IF FirstOfItsId(fs, i)
                     THEN /\ fs[i].rec.id \in DOMAIN Coll(fs[i].coll)
                          /\ Coll(fs[i].coll)[fs[i].rec.id] = fs[i].rec
                     ELSE \/ ret[t].status = "error"
                          \/ \E n \in 1..Len(loc[t].out) :
                                loc[t].out[n] = [conflict |-> i]

\* C22: no foreign key is checked: an insert of a visit with an unused id
\* succeeds and stores the visit whether or not its user and its location are
\* stored, and an update assigns the location or user it is given whether or
\* not such a record is stored.
C22_NoForeignKeyCheck ==
    [][\A t \in Threads :
          /\ (AddReturns(t) /\ req[t].coll = "visits" /\ req[t].id \notin DOMAIN visits)
                => /\ ret'[t].status = "ok"
                   /\ visits'[req[t].id] = req[t].rec
          /\ (UpdSteps(t) /\ pc[t] = "upd_write" /\ req[t].coll = "visits"
                 /\ Head(loc[t].left).field \in {"location", "user"})
                => visits'[req[t].id][Head(loc[t].left).field] = Head(loc[t].left).value]_vars

\* A visit of a user who is not stored to a location that is not stored.
C22_Witness ==
    \E t \in Threads :
        /\ pc[t] = "done" /\ req[t].kind = "add" /\ req[t].coll = "visits"
        /\ ret[t].status = "ok"
        /\ visits[req[t].id].user \notin DOMAIN users
        /\ visits[req[t].id].location \notin DOMAIN locations

\* C23: readers share the lock: a get, update lookup or query scan that calls
\* RLock while no insert holds or waits for the write lock enters its read
\* section at once, whoever else is reading.
ReadSectionOf(l) ==
    CASE l = "get_RLock" -> "get_read"
      [] l = "upd_RLock" -> "upd_read"
      [] l = "qv_RLock" -> "qv_range"

C23_ReadersShare ==
    [][\A t \in Threads :
          (pc[t] \in {"get_RLock", "upd_RLock", "qv_RLock"} /\ pc'[t] # pc[t]
              /\ mux.w = NoThread)
              => /\ pc'[t] = ReadSectionOf(pc[t])
                 /\ mux'.r[t] = mux.r[t] + 1]_vars

\* A get and a query scan inside their read sections at the same time.
C23_Witness ==
    \E t, u \in Threads :
        /\ t # u
        /\ pc[t] = "get_read" /\ pc[u] = "qv_range"
        /\ mux.r[t] = 1 /\ mux.r[u] = 1 /\ mux.w = NoThread

\* C24: locking is not re-entrant: a goroutine that calls Lock or RLock holds
\* no lock of the store at that moment.
LockRequests ==
    {"add_Lock", "get_RLock", "upd_RLock", "qv_RLock", "qv_getLocation_RLock",
     "qa_RLock", "qa_getUser_RLock"}

C24_NonReentrant ==
    \A t \in Threads :
        pc[t] \in LockRequests => (mux.r[t] = 0 /\ ~HoldsLock(t))

\* C25: the list a queryVisits returns is the reference result on one state
\* in which the store has been between the start of the query and its return:
\* the store as it is when the query returns, or, while another goroutine is
\* assigning the fields of an update, the store with any number of that
\* update's first fields applied to the record as the update found it.
RECURSIVE ApplyFirst(_, _, _)
ApplyFirst(r, s, j) ==
    IF j = 0 THEN r
    ELSE [ApplyFirst(r, s, j - 1) EXCEPT ![s[j].field] = s[j].value]

StoreNow == [visits |-> visits, locations |-> locations]

StoresDuring(u) ==
    IF req[u].kind = "update" /\ req[u].coll \in {"visits", "locations"} /\ loc[u].old # <<>>
    THEN LET s == Supplied(req[u].coll, req[u].body)
         IN { [StoreNow EXCEPT ![req[u].coll][loc[u].ptr] = ApplyFirst(loc[u].old, s, j)]
                : j \in 0..Len(s) }
    ELSE {}

Snapshots(t) == {StoreNow} \cup UNION { StoresDuring(u) : u \in Threads \ {t} }

QualifiesIn(st, k, a) ==
    /\ st.visits[k].user = a.userID
    /\ a.fromDate < st.visits[k].visited_at /\ st.visits[k].visited_at < a.toDate
    /\ st.visits[k].location \in DOMAIN st.locations
    /\ st.locations[st.visits[k].location].distance < a.toDistance
    /\ (a.country = "" \/ st.locations[st.visits[k].location].country = a.country)

ProjectionIn(st, k) ==
    [place |-> st.locations[st.visits[k].location].place,
     visited_at |-> st.visits[k].visited_at,
     mark |-> st.visits[k].mark]

IsReference(body, st, a) ==
    LET Q == { k \in DOMAIN st.visits : QualifiesIn(st, k, a) }
    IN /\ Len(body) = Cardinality(Q)
       /\ \A k \in Q :
             Occurrences(body, ProjectionIn(st, k))
                 = Cardinality({ j \in Q : ProjectionIn(st, j) = ProjectionIn(st, k) })

C25_ScanSeesOneState ==
    [][\A t \in Threads :
          (pc[t] = "qv_range" /\ pc'[t] = "done" /\ ret'[t].status = "ok")
              => \E st \in Snapshots(t) : IsReference(ret'[t].body, st, req[t].args)]_vars

\* C26: an update whose body gives null to a top-level key is answered with
\* bad request and writes nothing, not even the fields to which the same
\* body gives a value.
C26_NullRejected ==
    [][\A t \in Threads :
          /\ (UpdSteps(t) /\ pc[t] = "upd_read" /\ Present(req[t].coll, req[t].id)
                 /\ req[t].body.nulls # {})
                => (pc'[t] = "done" /\ ret'[t].status = "badreq" /\ maps' = maps)
          /\ (req[t].kind = "update" /\ req[t].body.nulls # {}) => pc'[t] # "upd_write"]_vars

\* first_name "Y" came with a null gender: the first name is still "A".
C26_Witness ==
    \E t \in Threads :
        /\ pc[t] = "done" /\ req[t].kind = "update" /\ req[t].coll = "users"
        /\ ret[t].status = "badreq"
        /\ req[t].body.nulls = {"gender"} /\ req[t].body.fields.first_name = "Y"
        /\ users[req[t].id].first_name = "A" /\ users[req[t].id].gender = "m"


\* C27: with fromDate, toDate and toDistance absent from the request, no
\* visit of the user is left out of the answer of queryVisits, whatever its
\* visited_at and whatever the distance of its location.
C27_DefaultsExcludeNothing ==
    \A t \in Threads :
        (/\ pc[t] = "done" /\ req[t].kind = "queryVisits" /\ ret[t].status = "ok"
         /\ req[t].query.fromDate = <<>> /\ req[t].query.toDate = <<>>
         /\ req[t].query.toDistance = <<>>)
            => Len(ret[t].body)
                 = Cardinality({k \in DOMAIN visits : visits[k].user = req[t].userID})


\* C28: get, queryVisits and queryAverage are read-only: no step of such an
\* operation changes the key set or any field of any record of the three
\* collections, so a call that runs alone leaves the store as it found it.
ReadOnlyKinds == {"get", "queryVisits", "queryAverage"}

ReadSteps(t) ==
    /\ req[t].kind \in ReadOnlyKinds
    /\ pc[t] \notin RWaitLabels \cup {"idle", "done"}
    /\ <<pc[t], loc[t], ret[t]>> # <<pc'[t], loc'[t], ret'[t]>>

Others(c) ==
    CASE c = "users" -> <<locations, visits>>
      [] c = "locations" -> <<users, visits>>
      [] c = "visits" -> <<users, locations>>

KeysOf(c) ==
    CASE c = "users" -> DOMAIN users
      [] c = "locations" -> DOMAIN locations
      [] c = "visits" -> DOMAIN visits

WriteSteps(t) ==
    /\ req[t].kind \in {"add", "update"}
    /\ pc[t] \in {"add_check", "add_store", "upd_read", "upd_write"}
    /\ <<pc[t], loc[t], ret[t]>> # <<pc'[t], loc'[t], ret'[t]>>

C29_IdsPerCollection ==
    [][\A t \in Threads :
          /\ WriteSteps(t) => Others(req[t].coll)' = Others(req[t].coll)
          /\ (pc[t] = "get_read" /\ pc'[t] = "get_encode")
                => (loc'[t].ptr # NilPtr <=> req[t].id \in KeysOf(req[t].coll))]_vars

C29_Witness ==
    \E t, u \in Threads :
        /\ pc[t] = "done" /\ req[t].kind = "add" /\ ret[t].status = "ok"
        /\ pc[u] = "done" /\ req[u].kind = "get" /\ ret[u].status = "notfound"
        /\ req[u].id = req[t].id /\ req[u].coll # req[t].coll
        /\ req[t].id \in KeysOf(req[t].coll) /\ req[t].id \notin KeysOf(req[u].coll)


\* C30: an operation that has returned holds no lock, whichever way it
\* returned (a conflict, a not-found, a panic of the scan on a missing
\* location): a goroutine that is not inside an operation holds neither a read
\* lock nor the write lock, and when no operation is in progress the mutex is
\* as it was constructed.
Outside(t) == pc[t] \in {"idle", "done"}

=============================================================================
